---- MODULE Spec2Model ----
(***************************************************************************)
(* A model of lemmy2opml.py: the community parsers and renderers of        *)
(* LemmyCommunity, the OPML tree conversion, and the LemmyClient methods    *)
(* that drive them.                                                         *)
(*                                                                          *)
(* Representation of Python values:                                         *)
(*   - a str is a sequence of one-character strings;                        *)
(*   - None is the one-element sequence <<"None">> (no str equals it, since *)
(*     "None" is not a single character);                                   *)
(*   - a community id (an opaque number of the API) is a str of digits;     *)
(*   - a call's outcome is [exc |-> "none", val |-> v] when it returns v    *)
(*     and [exc |-> <exception class>, val |-> None] when it raises.        *)
(***************************************************************************)
EXTENDS Integers, Sequences, FiniteSets, TLC

VARIABLES client, call, args, ret,
          pc, import_list, cursor, n_subscribed, n_failed, http, subscribe_calls

\* The state of a run of import_communities: its position, its local
\* variables (import_list is the list `communities` that from_opml gave; cursor is
\* the position of the for loop in it, from 1, and 0 before the loop), the HTTP exchanges of the client so far and the calls of
\* subscribe so far (the index of the community of each)
importVars == <<pc, import_list, cursor, n_subscribed, n_failed, http, subscribe_calls>>

vars == <<client, call, args, ret, pc, import_list, cursor, n_subscribed, n_failed,
          http, subscribe_calls>>

None == <<"None">>

Return(v) == [exc |-> "none", val |-> v]

Raise(e) == [exc |-> e, val |-> None]

(***************************************************************************)
(* Bounds of the enumerated inputs.                                         *)
(***************************************************************************)
MaxSegs == 3

MaxTextLen == 4

MaxNodes == 3

MaxFollows == 3

MaxImport == 2

(***************************************************************************)
(* str helpers                                                              *)
(***************************************************************************)
Upper == <<"A","B","C","D","E","F","G","H","I","J","K","L","M",
           "N","O","P","Q","R","S","T","U","V","W","X","Y","Z">>

Lower == <<"a","b","c","d","e","f","g","h","i","j","k","l","m",
           "n","o","p","q","r","s","t","u","v","w","x","y","z">>

Letters == {Upper[i] : i \in DOMAIN Upper} \cup {Lower[i] : i \in DOMAIN Lower}

Digits == {"0","1","2","3","4","5","6","7","8","9"}

\* str.find(ch): the first position of ch in s, 0 when there is none
Find(s, ch) ==
    IF \E i \in 1..Len(s) : s[i] = ch
    THEN CHOOSE i \in 1..Len(s) : s[i] = ch /\ \A j \in 1..(i-1) : s[j] # ch
    ELSE 0

\* str.rfind(ch): the last position of ch in s, 0 when there is none
RFind(s, ch) ==
    IF \E i \in 1..Len(s) : s[i] = ch
    THEN CHOOSE i \in 1..Len(s) : s[i] = ch /\ \A j \in (i+1)..Len(s) : s[j] # ch
    ELSE 0

\* str.split(ch): always at least one piece
RECURSIVE Split(_, _)
Split(s, ch) ==
    LET i == Find(s, ch)
    IN  IF i = 0 THEN <<s>>
        ELSE <<SubSeq(s, 1, i-1)>> \o Split(SubSeq(s, i+1, Len(s)), ch)

\* str.lower()
LowerCase(s) ==
    [k \in 1..Len(s) |->
        IF \E i \in DOMAIN Upper : Upper[i] = s[k]
        THEN Lower[CHOOSE i \in DOMAIN Upper : Upper[i] = s[k]]
        ELSE s[k]]

RECURSIVE Concat(_)
Concat(ss) == IF Len(ss) = 0 THEN <<>> ELSE Head(ss) \o Concat(Tail(ss))

(***************************************************************************)
(* urllib.parse and os.path, as the program uses them                       *)
(***************************************************************************)
SchemeChars == Letters \cup Digits \cup {"+", "-", "."}

UsesNetloc == {<<"h","t","t","p">>, <<"h","t","t","p","s">>}

\* urlsplit(url) for a str without whitespace, control characters or brackets:
\* the scheme up to the first ":", the netloc after "//" up to the next "/",
\* "?" or "#", the fragment after the first "#", the query after the first "?"
urlsplit(url) ==
    LET SplitQuery(scheme, netloc, body, fragment) ==
            LET q == Find(body, "?")
            IN  [scheme |-> scheme, netloc |-> netloc,
                 path |-> IF q = 0 THEN body ELSE SubSeq(body, 1, q-1),
                 query |-> IF q = 0 THEN <<>> ELSE SubSeq(body, q+1, Len(body)),
                 fragment |-> fragment]
        SplitFragment(scheme, netloc, rest) ==
            LET h == Find(rest, "#")
            IN  SplitQuery(scheme, netloc,
                           IF h = 0 THEN rest ELSE SubSeq(rest, 1, h-1),
                           IF h = 0 THEN <<>> ELSE SubSeq(rest, h+1, Len(rest)))
        SplitNetloc(scheme, u) ==
            LET delims == {k \in 3..Len(u) : u[k] \in {"/", "?", "#"}}
                delim == IF delims = {} THEN Len(u) + 1
                         ELSE CHOOSE k \in delims : \A j \in delims : k <= j
            IN  IF Len(u) >= 2 /\ u[1] = "/" /\ u[2] = "/"
                THEN SplitFragment(scheme, SubSeq(u, 3, delim-1), SubSeq(u, delim, Len(u)))
                ELSE SplitFragment(scheme, <<>>, u)
        i == Find(url, ":")
    IN  IF i > 1 /\ url[1] \in Letters /\ \A k \in 1..(i-1) : url[k] \in SchemeChars
        THEN SplitNetloc(LowerCase(SubSeq(url, 1, i-1)), SubSeq(url, i+1, Len(url)))
        ELSE SplitNetloc(<<>>, url)

\* urlunsplit((scheme, netloc, path, query, fragment))
urlunsplit(scheme, netloc, path, query, fragment) ==
    LET withNetloc ==
            \/ netloc # <<>>
            \/ /\ scheme # <<>>
               /\ scheme \in UsesNetloc
               /\ SubSeq(path, 1, 2) # <<"/", "/">>
        p1 == IF withNetloc
              THEN <<"/", "/">> \o netloc \o
                   (IF path # <<>> /\ path[1] # "/" THEN <<"/">> \o path ELSE path)
              ELSE path
        p2 == IF scheme # <<>> THEN scheme \o <<":">> \o p1 ELSE p1
        p3 == IF query # <<>> THEN p2 \o <<"?">> \o query ELSE p2
    IN  IF fragment # <<>> THEN p3 \o <<"#">> \o fragment ELSE p3

\* quote_plus of one character: unreserved characters stay, a space becomes
\* "+", the other characters of the inputs are percent-encoded
QuoteChar(c) ==
    CASE c \in Letters \cup Digits \cup {"_", ".", "-", "~"} -> <<c>>
      [] c = " " -> <<"+">>
      [] c = "/" -> <<"%", "2", "F">>
      [] c = "?" -> <<"%", "3", "F">>
      [] c = "#" -> <<"%", "2", "3">>
      [] c = ":" -> <<"%", "3", "A">>
      [] c = "@" -> <<"%", "4", "0">>
      [] c = "!" -> <<"%", "2", "1">>
      [] c = "=" -> <<"%", "3", "D">>
      [] c = "+" -> <<"%", "2", "B">>

\* urlencode({key: value})
urlencode(key, value) ==
    Concat([k \in 1..Len(key) |-> QuoteChar(key[k])]) \o <<"=">> \o
    Concat([k \in 1..Len(value) |-> QuoteChar(value[k])])

\* os.path.splitext(p) for a p without "/": the extension starts at the last
\* dot, unless only dots come before it
splitext(p) ==
    LET d == RFind(p, ".")
    IN  IF d > 0 /\ \E k \in 1..(d-1) : p[k] # "."
        THEN <<SubSeq(p, 1, d-1), SubSeq(p, d, Len(p))>>
        ELSE <<p, <<>>>>

(***************************************************************************)
(* LemmyCommunity: the parsers                                              *)
(***************************************************************************)
LemmyCommunity(instance, name, id, title, description, is_kbin) ==
    [instance |-> instance, name |-> name, id |-> id, title |-> title,
     description |-> description, is_kbin |-> is_kbin]

\* parsed.path.split('/')[1:]
PathTokens(path) == Tail(Split(path, "/"))

\* urlsplit(None) gives a bytes result, and bytes.split('/') raises TypeError
from_url(url, id, title, description) ==
    LET Parse(netloc, path_tokens) ==
            IF Len(path_tokens) < 1 THEN Raise("IndexError")
            ELSE IF path_tokens[1] # <<"c">> /\ path_tokens[1] # <<"m">>
                 THEN Raise("ValueError")
            ELSE IF Len(path_tokens) < 2 THEN Raise("IndexError")
            ELSE Return(LemmyCommunity(netloc, path_tokens[2], id, title,
                                       description, path_tokens[1] = <<"m">>))
        WithParsed(parsed) == Parse(parsed.netloc, PathTokens(parsed.path))
    IN  IF url = None THEN Raise("TypeError") ELSE WithParsed(urlsplit(url))

from_feed_url(url) ==
    LET Parse(netloc, path_tokens) ==
            IF Len(path_tokens) < 1 THEN Raise("IndexError")
            ELSE IF path_tokens[1] # <<"f","e","e","d","s">> THEN Raise("ValueError")
            ELSE IF Len(path_tokens) < 2 THEN Raise("IndexError")
            ELSE IF path_tokens[2] # <<"c">> THEN Raise("ValueError")
            ELSE IF Len(path_tokens) < 3 THEN Raise("IndexError")
            ELSE Return(LemmyCommunity(netloc, splitext(path_tokens[3])[1],
                                       None, None, None, FALSE))
        WithParsed(parsed) == Parse(parsed.netloc, PathTokens(parsed.path))
    IN  IF url = None THEN Raise("TypeError") ELSE WithParsed(urlsplit(url))

from_text(txt, is_kbin) ==
    IF Len(txt) < 1 THEN Raise("IndexError")
    ELSE IF txt[1] # "!" THEN Raise("ValueError")
    ELSE LET parts == Split(Tail(txt), "@")
         IN  IF Len(parts) # 2 THEN Raise("ValueError")
             ELSE Return(LemmyCommunity(parts[2], parts[1], None, None, None,
                                        is_kbin))

\* data["actor_id"] and data["id"] raise KeyError when the key is absent;
\* data.get(key) gives None
DictGet(data, key) == IF key \in DOMAIN data THEN data[key] ELSE None

\* from_dict without the description of the record
from_dict_drops_description(data) ==
    IF "actor_id" \notin DOMAIN data THEN Raise("KeyError")
    ELSE IF "id" \notin DOMAIN data THEN Raise("KeyError")
    ELSE from_url(data["actor_id"], data["id"], DictGet(data, "title"), None)

from_dict(data) ==
    IF "actor_id" \notin DOMAIN data THEN Raise("KeyError")
    ELSE IF "id" \notin DOMAIN data THEN Raise("KeyError")
    ELSE from_url(data["actor_id"], data["id"], DictGet(data, "title"),
                  DictGet(data, "description"))

(***************************************************************************)
(* Outline trees (opyml.Outline, opyml.OPML)                                *)
(***************************************************************************)
TypeCategory == <<"c","a","t","e","g","o","r","y">>

TypeRss == <<"r","s","s">>

TypeLemmyCommunity == <<"l","e","m","m","y","C","o","m","m","u","n","i","t","y">>

Outline(type, text, title, description, xml_url, html_url) ==
    [type |-> type, text |-> text, title |-> title, description |-> description,
     xml_url |-> xml_url, html_url |-> html_url, outlines |-> <<>>]

\* A walk that yields the leaves of a level before it descends
RECURSIVE walk_leaves_first(_)
walk_leaves_first(top) ==
    SelectSeq(top.outlines, LAMBDA o : o.type # TypeCategory) \o
    Concat([i \in 1..Len(top.outlines) |->
                IF top.outlines[i].type = TypeCategory
                THEN walk_leaves_first(top.outlines[i])
                ELSE <<>>])

\* The non-"category" outlines below top, in the order the generator yields them
RECURSIVE _walk_outlines(_)
_walk_outlines(top) ==
    Concat([i \in 1..Len(top.outlines) |->
                IF top.outlines[i].type = TypeCategory
                THEN _walk_outlines(top.outlines[i])
                ELSE <<top.outlines[i]>>])

\* Each try block catches ValueError and AttributeError only; any other
\* exception of a parser leaves from_outline
from_outline(outline) ==
    LET byHtml == from_url(outline.html_url, None, None, None)
        byXml == from_feed_url(outline.xml_url)
        caught == {"ValueError", "AttributeError"}
    IN  IF byHtml.exc = "none" \/ byHtml.exc \notin caught THEN byHtml
        ELSE IF byXml.exc = "none" \/ byXml.exc \notin caught THEN byXml
        ELSE Raise("ValueError")

\* The loop of from_opml over the walked outlines: ValueError is counted, any
\* other exception ends the call
RECURSIVE FromOpmlLoop(_, _, _)
FromOpmlLoop(walk, communities, failed) ==
    IF walk = <<>> THEN Return(<<communities, failed>>)
    ELSE LET r == from_outline(Head(walk))
         IN  IF r.exc = "none"
             THEN FromOpmlLoop(Tail(walk), Append(communities, r.val), failed)
             ELSE IF r.exc = "ValueError"
             THEN FromOpmlLoop(Tail(walk), communities, failed + 1)
             ELSE r

from_opml(opml) == FromOpmlLoop(_walk_outlines(opml.body), <<>>, 0)

(***************************************************************************)
(* LemmyCommunity: the renderers                                            *)
(***************************************************************************)
\* SORT_BY_VALUES: <<key, SortBy.lemmy, SortBy.kbin>> in the order of the dict
SORT_BY_VALUES == <<
    << <<"t","o","p">>, <<"T","o","p","A","l","l">>, <<"t","o","p">> >>,
    << <<"h","o","t">>, <<"H","o","t">>, <<"h","o","t">> >>,
    << <<"a","c","t","i","v","e">>, <<"A","c","t","i","v","e">>,
       <<"a","c","t","i","v","e">> >>,
    << <<"n","e","w">>, <<"N","e","w">>, <<"n","e","w","e","s","t">> >>,
    << <<"o","l","d">>, <<"O","l","d">>, None >>,
    << <<"m","o","s","t","c","o","m","m","e","n","t","s">>,
       <<"M","o","s","t","C","o","m","m","e","n","t","s">>,
       <<"c","o","m","m","e","n","t","e","d">> >>,
    << <<"n","e","w","c","o","m","m","e","n","t","s">>,
       <<"N","e","w","C","o","m","m","e","n","t","s">>, None >> >>

SortKeys == { SORT_BY_VALUES[i][1] : i \in DOMAIN SORT_BY_VALUES }

SortEntry(key) ==
    SORT_BY_VALUES[CHOOSE i \in DOMAIN SORT_BY_VALUES : SORT_BY_VALUES[i][1] = key]

\* _resolve_sort_by that lets the KeyError of the lookup through
resolve_sort_by_key_error(self, sort_by_str) ==
    IF sort_by_str = None THEN Return(None)
    ELSE IF sort_by_str \notin SortKeys THEN Raise("KeyError")
    ELSE LET actual_sort_by == IF self.is_kbin THEN SortEntry(sort_by_str)[3]
                               ELSE SortEntry(sort_by_str)[2]
         IN  IF actual_sort_by = None THEN Raise("ValueError")
             ELSE Return(actual_sort_by)

_resolve_sort_by(self, sort_by_str) ==
    IF sort_by_str = None THEN Return(None)
    ELSE IF sort_by_str \notin SortKeys THEN Raise("ValueError")
    ELSE LET actual_sort_by == IF self.is_kbin THEN SortEntry(sort_by_str)[3]
                               ELSE SortEntry(sort_by_str)[2]
         IN  IF actual_sort_by = None THEN Raise("ValueError")
             ELSE Return(actual_sort_by)

StrHttps == <<"h","t","t","p","s">>

StrSort == <<"s","o","r","t">>

StrMagazine == <<"m","a","g","a","z","i","n","e">>

\* The sort token a renderer ends up with: None after a caught ValueError
ResolvedOrNone(resolved) == IF resolved.exc = "ValueError" THEN None ELSE resolved.val

\* html_url with the /c/ path for both variants
html_url_lemmy_path(self, sort_by) ==
    LET resolved == _resolve_sort_by(self, sort_by)
        sort == ResolvedOrNone(resolved)
        q == IF sort # None THEN urlencode(StrSort, sort) ELSE <<>>
    IN  IF resolved.exc \notin {"none", "ValueError"} THEN resolved
        ELSE Return(urlunsplit(StrHttps, self.instance,
                               <<"/","c","/">> \o self.name, q, <<>>))

html_url(self, sort_by) ==
    LET resolved == _resolve_sort_by(self, sort_by)
        sort == ResolvedOrNone(resolved)
        path == IF self.is_kbin
                THEN <<"/","m","/">> \o self.name \o
                     (IF sort # None THEN <<"/">> \o sort ELSE <<>>)
                ELSE <<"/","c","/">> \o self.name
        q == IF ~self.is_kbin /\ sort # None THEN urlencode(StrSort, sort) ELSE <<>>
    IN  IF resolved.exc \notin {"none", "ValueError"} THEN resolved
        ELSE Return(urlunsplit(StrHttps, self.instance, path, q, <<>>))

rss_url(self, sort_by) ==
    LET resolved == IF sort_by # None /\ ~self.is_kbin
                    THEN _resolve_sort_by(self, sort_by)
                    ELSE Return(sort_by)
        sort == ResolvedOrNone(resolved)
        path == IF self.is_kbin THEN <<"/","r","s","s">>
                ELSE <<"/","f","e","e","d","s","/","c","/">> \o self.name \o
                     <<".","x","m","l">>
        q == IF self.is_kbin THEN urlencode(StrMagazine, self.name)
             ELSE IF sort # None THEN urlencode(StrSort, sort) ELSE <<>>
    IN  IF resolved.exc \notin {"none", "ValueError"} THEN resolved
        ELSE Return(urlunsplit(StrHttps, self.instance, path, q, <<>>))

text(self) == <<"!">> \o self.name \o <<"@">> \o self.instance

\* to_outline with the two URLs in each other's attribute
to_outline_swapped_urls(self, sort_by, include_description) ==
    LET xml == rss_url(self, sort_by)
        html == html_url(self, sort_by)
    IN  IF xml.exc # "none" THEN xml
        ELSE IF html.exc # "none" THEN html
        ELSE Return(Outline(TypeRss, text(self), self.title,
                            IF include_description THEN self.description ELSE None,
                            html.val, xml.val))

\* The arguments of Outline(...) are evaluated in order: xml_url, then html_url
to_outline(self, sort_by, include_description) ==
    LET xml == rss_url(self, sort_by)
        html == html_url(self, sort_by)
    IN  IF xml.exc # "none" THEN xml
        ELSE IF html.exc # "none" THEN html
        ELSE Return(Outline(TypeRss, text(self), self.title,
                            IF include_description THEN self.description ELSE None,
                            xml.val, html.val))

(***************************************************************************)
(* LemmyClient                                                              *)
(***************************************************************************)
StrHttpsColonSlashSlash == <<"h","t","t","p","s",":","/","/">>

StrHttpColonSlashSlash == <<"h","t","t","p",":","/","/">>

StartsWith(s, prefix) == Len(s) >= Len(prefix) /\ SubSeq(s, 1, Len(prefix)) = prefix

to_https(url) ==
    IF StartsWith(url, StrHttpsColonSlashSlash) THEN url
    ELSE IF StartsWith(url, StrHttpColonSlashSlash)
    THEN StrHttpsColonSlashSlash \o SubSeq(url, Len(StrHttpColonSlashSlash) + 1, Len(url))
    ELSE StrHttpsColonSlashSlash \o url

\* LemmyClient.__init__
LemmyClient(site_url) ==
    [site_url |-> to_https(site_url),
     parsed |-> urlsplit(to_https(site_url)),
     instance |-> urlsplit(to_https(site_url)).netloc,
     username |-> None,
     auth_token |-> None]

user_reference(self) == <<"@">> \o self.username \o <<"@">> \o self.instance

user_url(self) ==
    urlunsplit(self.parsed.scheme, self.parsed.netloc,
               <<"/","u","/">> \o self.username,
               self.parsed.query, self.parsed.fragment)

\* `if not self.auth_token`
NotLoggedIn(self) == self.auth_token = None \/ self.auth_token = <<>>

\* The communities of the "follows" of a response of GET /site: a record that
\* from_dict rejects (with any exception) is skipped
RECURSIVE ParseFollows(_)
ParseFollows(follows) ==
    IF follows = <<>> THEN <<>>
    ELSE LET r == from_dict(Head(follows))
         IN  (IF r.exc = "none" THEN <<r.val>> ELSE <<>>) \o ParseFollows(Tail(follows))

subscribed_communities(self, response) ==
    IF NotLoggedIn(self) THEN Raise("NotLoggedInError")
    ELSE IF response.status # "ok" THEN Raise("RequestException")
    ELSE Return(ParseFollows(response.follows))

\* cat_outlines is a dict, which keeps its keys in insertion order: a sequence
\* of <<instance, category outline>>
CatIndex(cat_outlines, instance) ==
    IF \E i \in DOMAIN cat_outlines : cat_outlines[i][1] = instance
    THEN CHOOSE i \in DOMAIN cat_outlines : cat_outlines[i][1] = instance
    ELSE 0

\* A new key at the front of the dict
DictInsertFirst(cat_outlines, key, value) == << <<key, value>> >> \o cat_outlines

\* cat_outlines[key] = value for a key that is not in the dict: the new key
\* is the last in iteration order
DictInsert(cat_outlines, key, value) == Append(cat_outlines, <<key, value>>)

AppendChild(parent, child) == [parent EXCEPT !.outlines = Append(@, child)]

\* The loop `for c in communities` of subscribed_to_opml and the appending of
\* the category outlines that follows it; gives the outlines of the body
RECURSIVE BuildBody(_, _, _, _, _)
BuildBody(communities, categories, sort_by, body, cat_outlines) ==
    IF communities = <<>>
    THEN Return(IF categories
                THEN body \o [i \in DOMAIN cat_outlines |-> cat_outlines[i][2]]
                ELSE body)
    ELSE
    LET c == Head(communities)
        leaf == to_outline(c, sort_by, FALSE)
        k == CatIndex(cat_outlines, c.instance)
        fresh == Outline(TypeCategory, c.instance, None, None, None, None)
    IN  IF leaf.exc # "none" THEN leaf
        ELSE IF ~categories
        THEN BuildBody(Tail(communities), categories, sort_by,
                       Append(body, leaf.val), cat_outlines)
        ELSE IF k # 0
        THEN BuildBody(Tail(communities), categories, sort_by, body,
                       [cat_outlines EXCEPT ![k][2] = AppendChild(@, leaf.val)])
        ELSE BuildBody(Tail(communities), categories, sort_by, body,
                       DictInsert(cat_outlines, c.instance,
                                  AppendChild(fresh, leaf.val)))

\* opyml.Head with the four elements the program sets
MakeHead(self, title, include_owner_name, include_owner_id, include_timestamp, now) ==
    [title |-> IF title # None /\ title # <<>> THEN title ELSE None,
     owner_name |-> IF include_owner_name THEN user_reference(self) ELSE None,
     owner_id |-> IF include_owner_id THEN user_url(self) ELSE None,
     date_created |-> IF include_timestamp THEN now ELSE None]

Truthy(v) == v # None /\ v # <<>>

\* now is format_datetime(datetime.now()); returns (doc, len(communities))
subscribed_to_opml(self, response, categories, sort_by, title, include_owner_name, include_owner_id, include_timestamp, now) ==
    LET fetched == subscribed_communities(self, response)
        head == MakeHead(self, title, include_owner_name, include_owner_id,
                         include_timestamp, now)
        anyHead == \/ Truthy(head.title) \/ Truthy(head.owner_name)
                   \/ Truthy(head.owner_id) \/ Truthy(head.date_created)
        built == BuildBody(fetched.val, categories, sort_by, <<>>, <<>>)
    IN  IF NotLoggedIn(self) THEN Raise("NotLoggedInError")
        ELSE IF fetched.exc # "none" THEN fetched
        ELSE IF built.exc # "none" THEN built
        ELSE Return(<< [head |-> IF anyHead THEN head ELSE None,
                        body |-> [outlines |-> built.val]],
                       Len(fetched.val) >>)

(***************************************************************************)
(* Inputs                                                                   *)
(***************************************************************************)
Segs == { <<>>, <<"c">>, <<"m">>, <<"f","e","e","d","s">>, <<"x",".","x","m","l">> }

RECURSIVE Paths(_)
Paths(n) ==
    IF n = 0 THEN { <<>> }
    ELSE Paths(n-1) \cup { p \o <<"/">> \o s : p \in Paths(n-1), s \in Segs }

UrlA == StrHttpsColonSlashSlash \o <<"a">>

UrlB == StrHttpsColonSlashSlash \o <<"b">>

Prefixes == { <<>>, UrlA, UrlB }

Suffixes == { <<>>, <<"?","s","o","r","t","=","H","o","t">> }

BaseUrls == { a \o p \o z : a \in Prefixes, p \in Paths(MaxSegs), z \in Suffixes }

\* The records the two URL parsers give on the input URLs
Communities ==
    { from_url(u, None, None, None).val :
        u \in { v \in BaseUrls : from_url(v, None, None, None).exc = "none" } }
    \cup
    { from_feed_url(u).val : u \in { v \in BaseUrls : from_feed_url(v).exc = "none" } }

SortInputs == SortKeys \cup { None, <<"z">> }

\* The input URLs and the URLs the renderers give for the records
UrlInputs ==
    BaseUrls
    \cup { html_url(c, s).val : c \in Communities, s \in {None, <<"t","o","p">>} }
    \cup { rss_url(c, s).val : c \in Communities, s \in {None, <<"t","o","p">>} }

RECURSIVE Strings(_, _)
Strings(alphabet, n) ==
    IF n = 0 THEN { <<>> }
    ELSE Strings(alphabet, n-1) \cup
         { Append(s, ch) : s \in Strings(alphabet, n-1), ch \in alphabet }

TextInputs == Strings({"!", "@", "x", "a"}, MaxTextLen)

\* API records: every subset of the keys, with some actor_id values
ActorIds == { UrlA \o <<"/","c","/","x">>, UrlB \o <<"/","m","/","y">>,
              UrlA \o <<"/","c","/","y","?","s","o","r","t","=","H","o","t">>,
              UrlA \o <<"/","u","/","x">>, UrlA \o <<"/","c">>, UrlA }

FieldValue(key) ==
    CASE key = "id" -> <<"7">>
      [] key = "title" -> <<"T">>
      [] key = "description" -> <<"D">>

DictInputs ==
    UNION { { [k \in K \cup {"actor_id"} |->
                 IF k = "actor_id" THEN u ELSE FieldValue(k)] : u \in ActorIds }
            \cup { [k \in K |-> FieldValue(k)] }
          : K \in SUBSET {"id", "title", "description"} }

\* Outline leaves: every pair of an htmlUrl and an xmlUrl attribute
LeafUrls == { None, UrlA, UrlA \o <<"/","x">>,
              UrlA \o <<"/","c","/","x">>, UrlB \o <<"/","m","/","y">>,
              UrlB \o <<"/","f","e","e","d","s","/","c","/","y",".","x","m","l">>,
              UrlB \o <<"/","f","e","e","d","s">> }

OutlineInputs ==
    { Outline(t, None, None, None, x, h) :
        t \in {TypeRss, None}, x \in LeafUrls, h \in LeafUrls }

\* Outline documents: the nodes of a tree are of these kinds, and any node
\* may have children
KLemmy == Outline(TypeRss, <<"!","x","@","a">>, None, None,
                  UrlA \o <<"/","f","e","e","d","s","/","c","/","x",".","x","m","l">>,
                  UrlA \o <<"/","c","/","x">>)

KFeed == Outline(TypeRss, None, None, None,
                 UrlB \o <<"/","f","e","e","d","s","/","c","/","y",".","x","m","l">>,
                 UrlB \o <<"/">>)

KForeign == Outline(TypeRss, None, None, None, UrlA \o <<"/","x">>, UrlA \o <<"/","x">>)

KNoUrls == Outline(TypeRss, None, None, None, None, None)

KCategory == Outline(TypeCategory, <<"a">>, None, None, None, None)

Kinds == { KLemmy, KFeed, KForeign, KNoUrls, KCategory }

\* The sequences of trees with n nodes in all
RECURSIVE Forests(_)
Forests(n) ==
    IF n = 0 THEN { <<>> }
    ELSE UNION { { <<[k EXCEPT !.outlines = below]>> \o after :
                     k \in Kinds, below \in Forests(j-1), after \in Forests(n-j) }
               : j \in 1..n }

OpmlInputs ==
    { [head |-> None, body |-> [outlines |-> f]] :
        f \in UNION { Forests(n) : n \in 0..MaxNodes } }

\* Responses of GET /site: an error, or a list of followed communities
ApiRecords ==
    { [actor_id |-> UrlA \o <<"/","c","/","x">>, id |-> <<"1">>,
       title |-> <<"T">>, description |-> <<"D">>],
      [actor_id |-> UrlB \o <<"/","m","/","y">>, id |-> <<"2">>],
      [actor_id |-> UrlA \o <<"/","m","/","y">>, id |-> <<"3">>, title |-> <<"T">>],
      [actor_id |-> UrlB \o <<"/","u","/","x">>, id |-> <<"4">>] }

RECURSIVE Lists(_, _)
Lists(S, n) ==
    IF n = 0 THEN { <<>> }
    ELSE Lists(S, n-1) \cup { Append(l, e) : l \in Lists(S, n-1), e \in S }

Responses ==
    { [status |-> "error", follows |-> <<>>] }
    \cup { [status |-> "ok", follows |-> f] : f \in Lists(ApiRecords, MaxFollows) }

ExportSorts == { None, <<"h","o","t">>, <<"o","l","d">> }

HeadOptions ==
    { [title |-> None, include_owner_name |-> FALSE, include_owner_id |-> FALSE,
       include_timestamp |-> FALSE],
      [title |-> None, include_owner_name |-> FALSE, include_owner_id |-> FALSE,
       include_timestamp |-> TRUE],
      [title |-> <<"T">>, include_owner_name |-> TRUE, include_owner_id |-> TRUE,
       include_timestamp |-> TRUE] }

Clock == { <<"F","r","i">> }

SiteInputs == { <<"a">>, UrlA, StrHttpColonSlashSlash \o <<"a">> }

Usernames == { <<"u">> }

Tokens == { <<"j","w","t">> }

(***************************************************************************)
(* The state machine: each action is one call of the module's API, made     *)
(* when no call is in progress; Finish is the caller taking the result.     *)
(***************************************************************************)
Idle == call = "none"

\* No run of import_communities is in progress
NoImport ==
    /\ pc = "none"
    /\ import_list = <<>>
    /\ cursor = 0
    /\ n_subscribed = 0
    /\ n_failed = 0
    /\ http = <<>>
    /\ subscribe_calls = <<>>

Init ==
    /\ client \in { LemmyClient(site) : site \in SiteInputs }
    /\ call = "none"
    /\ args = <<>>
    /\ ret = Return(None)
    /\ NoImport

\* LemmyClient.login: the request succeeds and gives a token, or fails
Login ==
    /\ Idle
    /\ \E username \in Usernames, ok \in BOOLEAN, jwt \in Tokens :
        /\ call' = "login"
        /\ args' = [username |-> username]
        /\ client' = [client EXCEPT !.username = username,
                                    !.auth_token = IF ok THEN jwt ELSE @]
        /\ ret' = IF ok THEN Return(None) ELSE Raise("RequestException")
        /\ UNCHANGED importVars

FromUrl ==
    /\ Idle
    /\ \E url \in UrlInputs :
        /\ call' = "from_url"
        /\ args' = [url |-> url]
        /\ ret' = from_url(url, None, None, None)
        /\ UNCHANGED client
        /\ UNCHANGED importVars

FromFeedUrl ==
    /\ Idle
    /\ \E url \in UrlInputs :
        /\ call' = "from_feed_url"
        /\ args' = [url |-> url]
        /\ ret' = from_feed_url(url)
        /\ UNCHANGED client
        /\ UNCHANGED importVars

FromText ==
    /\ Idle
    /\ \E txt \in TextInputs, is_kbin \in BOOLEAN :
        /\ call' = "from_text"
        /\ args' = [text |-> txt, is_kbin |-> is_kbin]
        /\ ret' = from_text(txt, is_kbin)
        /\ UNCHANGED client
        /\ UNCHANGED importVars

FromDict ==
    /\ Idle
    /\ \E data \in DictInputs :
        /\ call' = "from_dict"
        /\ args' = [data |-> data]
        /\ ret' = from_dict(data)
        /\ UNCHANGED client
        /\ UNCHANGED importVars

FromOutline ==
    /\ Idle
    /\ \E outline \in OutlineInputs :
        /\ call' = "from_outline"
        /\ args' = [outline |-> outline]
        /\ ret' = from_outline(outline)
        /\ UNCHANGED client
        /\ UNCHANGED importVars

FromOpml ==
    /\ Idle
    /\ \E opml \in OpmlInputs :
        /\ call' = "from_opml"
        /\ args' = [opml |-> opml]
        /\ ret' = from_opml(opml)
        /\ UNCHANGED client
        /\ UNCHANGED importVars

HtmlUrl ==
    /\ Idle
    /\ \E self \in Communities, sort_by \in SortInputs :
        /\ call' = "html_url"
        /\ args' = [self |-> self, sort_by |-> sort_by]
        /\ ret' = html_url(self, sort_by)
        /\ UNCHANGED client
        /\ UNCHANGED importVars

RssUrl ==
    /\ Idle
    /\ \E self \in Communities, sort_by \in SortInputs :
        /\ call' = "rss_url"
        /\ args' = [self |-> self, sort_by |-> sort_by]
        /\ ret' = rss_url(self, sort_by)
        /\ UNCHANGED client
        /\ UNCHANGED importVars

Text ==
    /\ Idle
    /\ \E self \in Communities :
        /\ call' = "text"
        /\ args' = [self |-> self]
        /\ ret' = Return(text(self))
        /\ UNCHANGED client
        /\ UNCHANGED importVars

SubscribedToOpml ==
    /\ Idle
    /\ \E response \in Responses, categories \in BOOLEAN, sort_by \in ExportSorts,
          opts \in HeadOptions, now \in Clock :
        /\ call' = "subscribed_to_opml"
        /\ args' = [response |-> response, categories |-> categories,
                    sort_by |-> sort_by, opts |-> opts]
        /\ ret' = subscribed_to_opml(client, response, categories, sort_by,
                                     opts.title, opts.include_owner_name,
                                     opts.include_owner_id, opts.include_timestamp,
                                     now)
        /\ UNCHANGED client
        /\ UNCHANGED importVars

Finish ==
    /\ ~Idle
    /\ call' = "none"
    /\ args' = <<>>
    /\ ret' = Return(None)
    /\ UNCHANGED client
    /\ UNCHANGED importVars

Next ==
    \/ Login
    \/ FromUrl
    \/ FromFeedUrl
    \/ FromText
    \/ FromDict
    \/ FromOutline
    \/ FromOpml
    \/ HtmlUrl
    \/ RssUrl
    \/ Text
    \/ SubscribedToOpml
    \/ Finish

Spec == Init /\ [][Next]_vars

(***************************************************************************)
(* The import run: import_communities and the client methods it drives.    *)
(* Each request of the client is one entry of http, made of what was sent,  *)
(* the index in the list of the community it was sent for, and the response *)
(* (Pending until it has come).                                             *)
(***************************************************************************)
StrApi == <<"/","a","p","i","/","v","3">>

base_api_url(self) == self.site_url \o StrApi

\* LemmyClient.login on a response of POST /user/login: the client after the
\* call, and the outcome
login(self, username, response) ==
    LET named == [self EXCEPT !.username = username]
    IN  IF response.status # "ok"
        THEN [self |-> named, outcome |-> Raise("RequestException")]
        ELSE IF "jwt" \notin DOMAIN response.json
        THEN [self |-> named, outcome |-> Raise("KeyError")]
        ELSE [self |-> [named EXCEPT !.auth_token = response.json["jwt"]],
              outcome |-> Return(None)]

\* The response of a request that has not been answered yet
Pending == [status |-> "pending", json |-> None]

\* The request of resolve_community for a LemmyCommunity
resolve_request(self, community, index) ==
    [method |-> "GET",
     url |-> base_api_url(self) \o <<"/","r","e","s","o","l","v","e","_","o","b","j","e","c","t">>,
     payload |-> [q |-> html_url(community, None).val, auth |-> self.auth_token],
     index |-> index,
     response |-> Pending]

\* What resolve_community makes of the response to its request
resolve_community(self, response) ==
    IF NotLoggedIn(self) THEN Raise("NotLoggedInError")
    ELSE IF response.status # "ok" THEN Raise("RequestException")
    ELSE IF "community" \notin DOMAIN response.json THEN Raise("KeyError")
    ELSE from_dict(response.json["community"]["community"])

\* A follow request that does not carry the id of the community
follow_request_without_id(self, community, index) ==
    [method |-> "POST",
     url |-> base_api_url(self) \o <<"/","c","o","m","m","u","n","i","t","y","/","f","o","l","l","o","w">>,
     payload |-> [community_id |-> None, follow |-> TRUE, auth |-> self.auth_token],
     index |-> index,
     response |-> Pending]

\* The request of subscribe for a community with an id
follow_request(self, community, index) ==
    [method |-> "POST",
     url |-> base_api_url(self) \o <<"/","c","o","m","m","u","n","i","t","y","/","f","o","l","l","o","w">>,
     payload |-> [community_id |-> community.id, follow |-> TRUE,
                  auth |-> self.auth_token],
     index |-> index,
     response |-> Pending]

\* What subscribe makes of the response to its follow request
subscribe_outcome(response) ==
    IF response.status # "ok" THEN Raise("RequestException") ELSE Return(None)

\* A loop whose body lets the exception of subscribe leave import_communities
AfterSubscribe_propagates(outcome) ==
    IF outcome.exc = "none"
    THEN [pc |-> "loop", cursor |-> cursor + 1, n_subscribed |-> n_subscribed + 1,
          n_failed |-> n_failed, ret |-> ret]
    ELSE [pc |-> "done", cursor |-> cursor, n_subscribed |-> n_subscribed,
          n_failed |-> n_failed, ret |-> outcome]

\* The body of the for loop of import_communities after the call of
\* subscribe: the bare `except:` catches whatever subscribe raised, one of the
\* counters goes up, and the loop goes on with the next community
AfterSubscribe(outcome) ==
    [pc |-> "loop",
     cursor |-> cursor + 1,
     n_subscribed |-> IF outcome.exc = "none" THEN n_subscribed + 1 ELSE n_subscribed,
     n_failed |-> IF outcome.exc = "none" THEN n_failed ELSE n_failed + 1,
     ret |-> ret]

\* Responses of POST /user/login: an error, a body without "jwt", a token, or
\* a null token
LoginResponses ==
    { [status |-> "error", json |-> None],
      [status |-> "ok", json |-> [error |-> <<"e">>]] }
    \cup { [status |-> "ok", json |-> [jwt |-> t]] : t \in Tokens \cup {None} }

\* Responses of GET /resolve_object: an error, a body without "community",
\* or a community record (complete, without id, or with a foreign actor_id)
ResolveRecords ==
    { [actor_id |-> UrlA \o <<"/","c","/","x">>, id |-> <<"1">>, title |-> <<"T">>],
      [actor_id |-> UrlB \o <<"/","c","/","y">>],
      [actor_id |-> UrlB \o <<"/","u","/","x">>, id |-> <<"4">>] }

ResolveResponses ==
    { [status |-> "error", json |-> None],
      [status |-> "ok", json |-> [error |-> <<"e">>]] }
    \cup { [status |-> "ok", json |-> [community |-> [community |-> d]]] :
             d \in ResolveRecords }

\* Responses of POST /community/follow
FollowResponses == { [status |-> "error", json |-> None], [status |-> "ok", json |-> None] }

\* The documents of an import run
ImportDocs ==
    { [head |-> None, body |-> [outlines |-> f]] :
        f \in UNION { Forests(n) : n \in 0..MaxImport } }

ImportInit ==
    /\ client = None
    /\ call = "none"
    /\ args = <<>>
    /\ ret = Return(None)
    /\ NoImport

\* The loop goes on as the record of AfterSubscribe says
Continue(after) ==
    /\ pc' = after.pc
    /\ cursor' = after.cursor
    /\ n_subscribed' = after.n_subscribed
    /\ n_failed' = after.n_failed
    /\ ret' = after.ret

\* The latest request of http gets its response
Answered(response) == [http EXCEPT ![Len(http)].response = response]

\* _logged_on_client: a client is made and logs in; a login that raises ends
\* import_communities
ImportLogin ==
    /\ Idle
    /\ pc = "none"
    /\ \E site \in SiteInputs, username \in Usernames, response \in LoginResponses :
        /\ call' = "import_communities"
        /\ args' = [instance |-> site, username |-> username]
        /\ client' = login(LemmyClient(site), username, response).self
        /\ ret' = login(LemmyClient(site), username, response).outcome
        /\ pc' = IF login(LemmyClient(site), username, response).outcome.exc = "none"
                 THEN "open" ELSE "done"
    /\ UNCHANGED <<import_list, cursor, n_subscribed, n_failed, http, subscribe_calls>>

\* The file is read and from_opml flattens it; an exception of from_opml ends
\* import_communities
ImportParse ==
    /\ pc = "open"
    /\ \E opml \in ImportDocs :
        /\ ret' = IF from_opml(opml).exc = "none" THEN ret ELSE from_opml(opml)
        /\ import_list' = IF from_opml(opml).exc = "none" THEN from_opml(opml).val[1] ELSE <<>>
        /\ cursor' = IF from_opml(opml).exc = "none" THEN 1 ELSE 0
        /\ pc' = IF from_opml(opml).exc = "none" THEN "loop" ELSE "done"
    /\ UNCHANGED <<client, call, args, n_subscribed, n_failed, http, subscribe_calls>>

\* client.subscribe(c) up to its first request: without a token it raises;
\* a community without an id is sent to resolve_community; one with an id
\* is followed
ImportSubscribe ==
    /\ pc = "loop"
    /\ cursor <= Len(import_list)
    /\ subscribe_calls' = Append(subscribe_calls, cursor)
    /\ IF NotLoggedIn(client)
       THEN /\ Continue(AfterSubscribe(Raise("NotLoggedInError")))
            /\ UNCHANGED http
       ELSE IF import_list[cursor].id = None
       THEN /\ http' = Append(http, resolve_request(client, import_list[cursor], cursor))
            /\ pc' = "resolve"
            /\ UNCHANGED <<cursor, n_subscribed, n_failed, ret>>
       ELSE /\ http' = Append(http, follow_request(client, import_list[cursor], cursor))
            /\ pc' = "follow"
            /\ UNCHANGED <<cursor, n_subscribed, n_failed, ret>>
    /\ UNCHANGED <<client, call, args, import_list>>

\* The response of /resolve_object comes: subscribe raises what
\* resolve_community raises, or sends the follow request of the resolved
\* community
ImportResolved ==
    /\ pc = "resolve"
    /\ \E response \in ResolveResponses :
        IF resolve_community(client, response).exc = "none"
        THEN /\ http' = Append(Answered(response),
                               follow_request(client, resolve_community(client, response).val, cursor))
             /\ pc' = "follow"
             /\ UNCHANGED <<cursor, n_subscribed, n_failed, ret>>
        ELSE /\ http' = Answered(response)
             /\ Continue(AfterSubscribe(resolve_community(client, response)))
    /\ UNCHANGED <<client, call, args, import_list, subscribe_calls>>

\* The response of /community/follow comes: subscribe returns or raises
ImportFollowed ==
    /\ pc = "follow"
    /\ \E response \in FollowResponses :
        /\ http' = Answered(response)
        /\ Continue(AfterSubscribe(subscribe_outcome(response)))
    /\ UNCHANGED <<client, call, args, import_list, subscribe_calls>>

\* The for loop is over: import_communities returns
ImportReturn ==
    /\ pc = "loop"
    /\ cursor > Len(import_list)
    /\ pc' = "done"
    /\ ret' = Return(None)
    /\ UNCHANGED <<client, call, args, import_list, cursor, n_subscribed, n_failed,
                   http, subscribe_calls>>

\* main exits with the outcome of import_communities
ImportExit ==
    /\ pc = "done"
    /\ client' = None
    /\ call' = "none"
    /\ args' = <<>>
    /\ ret' = Return(None)
    /\ pc' = "none"
    /\ import_list' = <<>>
    /\ cursor' = 0
    /\ n_subscribed' = 0
    /\ n_failed' = 0
    /\ http' = <<>>
    /\ subscribe_calls' = <<>>

ImportNext ==
    \/ ImportLogin
    \/ ImportParse
    \/ ImportSubscribe
    \/ ImportResolved
    \/ ImportFollowed
    \/ ImportReturn
    \/ ImportExit

ImportSpec == ImportInit /\ [][ImportNext]_vars

(***************************************************************************)
(* Positions in an outline tree, for the properties of the walk             *)
(***************************************************************************)
\* The index paths of all the nodes below top
RECURSIVE AllPaths(_)
AllPaths(top) ==
    UNION { { <<i>> } \cup { <<i>> \o q : q \in AllPaths(top.outlines[i]) }
          : i \in 1..Len(top.outlines) }

RECURSIVE NodeAt(_, _)
NodeAt(top, p) ==
    IF Len(p) = 1 THEN top.outlines[p[1]]
    ELSE NodeAt(top.outlines[p[1]], Tail(p))

\* A node the walk reaches as a leaf: it is not a "category" and all the
\* nodes above it are
ReachedLeaves(top) ==
    { p \in AllPaths(top) :
        /\ NodeAt(top, p).type # TypeCategory
        /\ \A k \in 1..(Len(p) - 1) : NodeAt(top, SubSeq(p, 1, k)).type = TypeCategory }

\* p comes before q in the document
Before(p, q) ==
    \E k \in 1..Len(p) :
        /\ k <= Len(q)
        /\ SubSeq(p, 1, k-1) = SubSeq(q, 1, k-1)
        /\ p[k] < q[k]

RECURSIVE InDocumentOrder(_)
InDocumentOrder(P) ==
    IF P = {} THEN <<>>
    ELSE LET first == CHOOSE p \in P : \A q \in P \ {p} : Before(p, q)
         IN  <<first>> \o InDocumentOrder(P \ {first})

IsReturn(r) == r.exc = "none"

\* The records from_outline gives for the reached leaves, in document order
ResolvedInOrder(top) ==
    LET order == InDocumentOrder(ReachedLeaves(top))
        tried == [i \in 1..Len(order) |-> from_outline(NodeAt(top, order[i]))]
        ok == SelectSeq(tried, IsReturn)
    IN  [i \in 1..Len(ok) |-> ok[i].val]

SameCommunity(c, d) ==
    c.instance = d.instance /\ c.name = d.name /\ c.is_kbin = d.is_kbin

(***************************************************************************)
(* C1: from_opml returns for every document, and the records plus the       *)
(* failure count add up to the non-"category" nodes the walk reaches; a     *)
(* document of one well-formed leaf and one leaf without htmlUrl and        *)
(* xmlUrl gives one record and failed = 1.                                  *)
(***************************************************************************)
C1_FlattenNeverRaises ==
    call = "from_opml" =>
        /\ ret.exc = "none"
        /\ Len(ret.val[1]) + ret.val[2] = Cardinality(ReachedLeaves(args.opml.body))
        /\ args.opml.body.outlines = <<KLemmy, KNoUrls>> =>
               Len(ret.val[1]) = 1 /\ ret.val[2] = 1

(***************************************************************************)
(* C2: without grouping, flattening the exported document gives the         *)
(* exported communities back: as many records, the same (instance, name,    *)
(* is_kbin) in the same order, and no failure.                              *)
(***************************************************************************)
C2_RoundTripNoGrouping ==
    (call = "subscribed_to_opml" /\ ret.exc = "none" /\ ~args.categories) =>
        LET communities == subscribed_communities(client, args.response).val
            flat == from_opml(ret.val[1])
        IN  /\ flat.exc = "none"
            /\ flat.val[2] = 0
            /\ Len(flat.val[1]) = Len(communities)
            /\ ret.val[2] = Len(communities)
            /\ \A i \in 1..Len(communities) :
                   SameCommunity(flat.val[1][i], communities[i])

C2_Witness ==
    /\ call = "subscribed_to_opml"
    /\ ret.exc = "none"
    /\ ~args.categories
    /\ args.sort_by = <<"o","l","d">>
    /\ LET communities == subscribed_communities(client, args.response).val
       IN  /\ Len(communities) = 3
           /\ communities[1].is_kbin /\ ~communities[2].is_kbin
           /\ communities[3] = communities[1]

(***************************************************************************)
(* C3: with grouping, the root holds one "category" node for each distinct  *)
(* instance and nothing else, in the order the instances first occur, and   *)
(* each category holds the leaves of its instance's communities in their    *)
(* order in the input.                                                      *)
(***************************************************************************)
FirstIndex(communities, instance) ==
    CHOOSE i \in 1..Len(communities) :
        /\ communities[i].instance = instance
        /\ \A j \in 1..(i-1) : communities[j].instance # instance

RECURSIVE OfInstance(_, _)
OfInstance(communities, instance) ==
    IF communities = <<>> THEN <<>>
    ELSE (IF Head(communities).instance = instance THEN <<Head(communities)>> ELSE <<>>)
         \o OfInstance(Tail(communities), instance)

C3_GroupingByInstance ==
    (call = "subscribed_to_opml" /\ ret.exc = "none" /\ args.categories) =>
        LET communities == subscribed_communities(client, args.response).val
            root == ret.val[1].body.outlines
            instances == { communities[i].instance : i \in 1..Len(communities) }
        IN  /\ Len(root) = Cardinality(instances)
            /\ \A i \in 1..Len(root) :
                   /\ root[i].type = TypeCategory
                   /\ root[i].text \in instances
                   /\ LET members == OfInstance(communities, root[i].text)
                      IN  /\ Len(root[i].outlines) = Len(members)
                          /\ \A k \in 1..Len(members) :
                                 root[i].outlines[k] =
                                     to_outline(members[k], args.sort_by, FALSE).val
            /\ \A i, j \in 1..Len(root) :
                   i < j => FirstIndex(communities, root[i].text)
                              < FirstIndex(communities, root[j].text)

C3_Witness ==
    /\ call = "subscribed_to_opml"
    /\ ret.exc = "none"
    /\ args.categories
    /\ LET communities == subscribed_communities(client, args.response).val
           root == ret.val[1].body.outlines
       IN  /\ Len(communities) = 3
           /\ communities[1].instance = communities[3].instance
           /\ communities[1].instance # communities[2].instance
           /\ communities[1].name # communities[3].name
           /\ Len(root) = 2
           /\ Len(root[1].outlines) = 2

(***************************************************************************)
(* C4: when from_opml returns, its records are the resolved leaves in       *)
(* document order (depth first, a category's leaves before its next         *)
(* sibling), duplicates kept; a document without leaves gives an empty      *)
(* list and no failures.                                                    *)
(***************************************************************************)
C4_DocumentOrder ==
    call = "from_opml" =>
        /\ ret.exc = "none" => ret.val[1] = ResolvedInOrder(args.opml.body)
        /\ ReachedLeaves(args.opml.body) = {} => ret = Return(<< <<>>, 0 >>)

C4_Witness ==
    /\ call = "from_opml"
    /\ ret.exc = "none"
    /\ Len(args.opml.body.outlines) = 2
    /\ args.opml.body.outlines[1].type = TypeCategory
    /\ Len(args.opml.body.outlines[1].outlines) = 1
    /\ Len(ret.val[1]) = 2
    /\ ret.val[1][1] # ret.val[1][2]

(***************************************************************************)
(* C5: from_url returns a record (instance from the host, is_kbin from the  *)
(* first segment) when the path begins with /c/<name> or /m/<name>, and     *)
(* raises ValueError, nothing else, for every other path.                   *)
(***************************************************************************)
ProfileShape(url) ==
    \/ StartsWith(urlsplit(url).path, <<"/","c","/">>)
    \/ StartsWith(urlsplit(url).path, <<"/","m","/">>)

C5_FromUrlTypedError ==
    call = "from_url" =>
        IF ProfileShape(args.url)
        THEN /\ ret.exc = "none"
             /\ ret.val.instance = urlsplit(args.url).netloc
             /\ ret.val.is_kbin = StartsWith(urlsplit(args.url).path, <<"/","m","/">>)
        ELSE ret.exc = "ValueError"

(***************************************************************************)
(* C6: from_feed_url returns a record (standard variant, the name without   *)
(* its extension) when the path is /feeds/c/<name>.xml, and raises          *)
(* ValueError, nothing else, for every other path.                          *)
(***************************************************************************)
FeedShape(url) ==
    LET tokens == PathTokens(urlsplit(url).path)
    IN  /\ Len(tokens) = 3
        /\ tokens[1] = <<"f","e","e","d","s">>
        /\ tokens[2] = <<"c">>
        /\ Len(tokens[3]) >= 4
        /\ SubSeq(tokens[3], Len(tokens[3]) - 3, Len(tokens[3])) = <<".","x","m","l">>

C6_FromFeedUrlTypedError ==
    call = "from_feed_url" =>
        IF FeedShape(args.url)
        THEN /\ ret.exc = "none"
             /\ ~ret.val.is_kbin
             /\ ret.val.name \o <<".","x","m","l">> = PathTokens(urlsplit(args.url).path)[3]
        ELSE ret.exc = "ValueError"

(***************************************************************************)
(* C7: the renderers never raise; html_url with a sort name that has no     *)
(* token for the record's variant gives the URL without a sort; rss_url of  *)
(* a Kbin record is https://<instance>/rss?magazine=<name> for every sort.  *)
(***************************************************************************)
NoToken(self, sort_by) ==
    /\ sort_by # None
    /\ \/ sort_by \notin SortKeys
       \/ self.is_kbin /\ sort_by \in { <<"o","l","d">>,
                                        <<"n","e","w","c","o","m","m","e","n","t","s">> }

C7_SortDegrades ==
    /\ call = "html_url" =>
           /\ ret.exc = "none"
           /\ NoToken(args.self, args.sort_by) =>
                  ret.val = StrHttpsColonSlashSlash \o args.self.instance \o
                            (IF args.self.is_kbin THEN <<"/","m","/">> ELSE <<"/","c","/">>)
                            \o args.self.name
    /\ call = "rss_url" =>
           /\ ret.exc = "none"
           /\ args.self.is_kbin =>
                  ret.val = StrHttpsColonSlashSlash \o args.self.instance \o
                            <<"/","r","s","s","?","m","a","g","a","z","i","n","e","=">>
                            \o args.self.name

C7_Witness ==
    /\ call = "html_url"
    /\ args.self.is_kbin
    /\ args.sort_by = <<"o","l","d">>
    /\ args.self.name # <<>>
    /\ args.self.instance # <<>>
    /\ ret.exc = "none"

(***************************************************************************)
(* C8: html_url without a sort name parses back, with from_url, to a record *)
(* of the same instance, name and is_kbin.                                  *)
(***************************************************************************)
C8_ProfileUrlRoundTrip ==
    (call = "html_url" /\ args.sort_by = None) =>
        /\ ret.exc = "none"
        /\ LET parsed == from_url(ret.val, None, None, None)
           IN  parsed.exc = "none" /\ SameCommunity(parsed.val, args.self)

C8_Witness ==
    /\ call = "html_url"
    /\ args.sort_by = None
    /\ args.self.is_kbin
    /\ args.self.name = <<"x",".","x","m","l">>
    /\ args.self.instance = <<"b">>
    /\ ret.exc = "none"

(***************************************************************************)
(* C9: from_text returns a record (name and instance from the two parts,    *)
(* the variant from the flag) for !<name>@<host> with one "@", and raises   *)
(* ValueError, nothing else, for every other text.                          *)
(***************************************************************************)
HandleShape(txt) ==
    /\ Len(txt) >= 1
    /\ txt[1] = "!"
    /\ Cardinality({ i \in 1..Len(txt) : txt[i] = "@" }) = 1

C9_FromTextTypedError ==
    call = "from_text" =>
        IF HandleShape(args.text)
        THEN /\ ret.exc = "none"
             /\ <<"!">> \o ret.val.name \o <<"@">> \o ret.val.instance = args.text
             /\ ret.val.is_kbin = args.is_kbin
        ELSE ret.exc = "ValueError"

(***************************************************************************)
(* C10: from_dict succeeds for every record whose actor_id is a profile     *)
(* URL, with or without id, title and description, and attaches the fields  *)
(* that are present.                                                        *)
(***************************************************************************)
HasProfileActor(data) == "actor_id" \in DOMAIN data /\ ProfileShape(data["actor_id"])

Attached(data, community) ==
    /\ SameCommunity(community, from_url(data["actor_id"], None, None, None).val)
    /\ \A key \in {"id", "title", "description"} :
           community[key] = IF key \in DOMAIN data THEN data[key] ELSE None

C10_FromDictOptionalId ==
    (call = "from_dict" /\ HasProfileActor(args.data)) =>
        ret.exc = "none" /\ Attached(args.data, ret.val)

(***************************************************************************)
(* C10, amended: from_dict succeeds for every record that has an id and     *)
(* whose actor_id is a profile URL, with or without title and description,  *)
(* and attaches the fields that are present; without an id it raises        *)
(* KeyError.                                                                *)
(***************************************************************************)
C10_FromDictWithId ==
    (call = "from_dict" /\ HasProfileActor(args.data)) =>
        IF "id" \in DOMAIN args.data
        THEN ret.exc = "none" /\ Attached(args.data, ret.val)
        ELSE ret.exc = "KeyError"

C10_Witness ==
    /\ call = "from_dict"
    /\ HasProfileActor(args.data)
    /\ DOMAIN args.data = {"actor_id", "id", "description"}
    /\ ret.exc = "none"
    /\ ret.val.is_kbin

(***************************************************************************)
(* C11: from_outline is an ordered fallback. It returns the result of       *)
(* from_url on the htmlUrl whenever that parse succeeds, whatever the       *)
(* xmlUrl is; it returns the result of from_feed_url on the xmlUrl only     *)
(* when the profile-URL parse fails and the feed-URL parse succeeds; and it *)
(* raises ValueError exactly when both parses fail.                         *)
(***************************************************************************)
ByHtmlUrl(outline) == from_url(outline.html_url, None, None, None)

ByXmlUrl(outline) == from_feed_url(outline.xml_url)

C11_OrderedFallback ==
    call = "from_outline" =>
        /\ IsReturn(ByHtmlUrl(args.outline)) => ret = ByHtmlUrl(args.outline)
        /\ (IsReturn(ret) /\ ~IsReturn(ByHtmlUrl(args.outline))) =>
               (IsReturn(ByXmlUrl(args.outline)) /\ ret = ByXmlUrl(args.outline))
        /\ ret.exc = "ValueError" <=>
               (~IsReturn(ByHtmlUrl(args.outline)) /\ ~IsReturn(ByXmlUrl(args.outline)))

(***************************************************************************)
(* The requests of an import run, for the properties of the loop            *)
(***************************************************************************)
FollowRequests == SelectSeq(http, LAMBDA e : e.method = "POST")

ResolveRequests == SelectSeq(http, LAMBDA e : e.method = "GET")

Indices(requests) == [k \in 1..Len(requests) |-> requests[k].index]

CountFor(requests, index) == Cardinality({ k \in 1..Len(requests) : requests[k].index = index })

\* import_communities has ended after it had entered its loop
LoopEnded == call = "import_communities" /\ pc = "done" /\ cursor > 0

\* The resolve request sent for the community at index was answered with a
\* record that resolve_community accepts
ResolvedOk(index) ==
    \E k \in 1..Len(http) :
        /\ http[k].method = "GET"
        /\ http[k].index = index
        /\ http[k].response.status # "pending"
        /\ IsReturn(resolve_community(client, http[k].response))

(***************************************************************************)
(* C12: in an import run exactly one follow request is issued for each      *)
(* community of the flattened list, in the order of the list, also for a    *)
(* community whose id is unknown and has to be resolved first.              *)
(***************************************************************************)
C12_OneFollowPerCommunity ==
    LoopEnded => Indices(FollowRequests) = [k \in 1..Len(import_list) |-> k]

(***************************************************************************)
(* C12, amended: in an import run at most one follow request is issued for  *)
(* each community of the flattened list, in the order of the list. Every    *)
(* community of the list has an unknown id: with a token the client sends   *)
(* one resolve request for its profile URL, and it sends the follow         *)
(* request, with the id of the resolved record, exactly when the resolve    *)
(* succeeded. Without a token, or after a failed resolve, no follow         *)
(* request is issued for the community.                                     *)
(***************************************************************************)
C12_FollowAfterResolve ==
    call = "import_communities" =>
        /\ \A c \in 1..Len(import_list) : import_list[c].id = None
        /\ \A a, b \in 1..Len(FollowRequests) :
               a < b => FollowRequests[a].index < FollowRequests[b].index
        /\ \A k \in 1..Len(http) :
               /\ http[k].index \in 1..Len(import_list)
               /\ http[k].method = "GET" =>
                      http[k].payload.q = html_url(import_list[http[k].index], None).val
               /\ http[k].method = "POST" =>
                      /\ k > 1
                      /\ http[k-1].method = "GET"
                      /\ http[k-1].index = http[k].index
                      /\ IsReturn(resolve_community(client, http[k-1].response))
                      /\ http[k].payload.community_id =
                             resolve_community(client, http[k-1].response).val.id
        /\ LoopEnded =>
               \A c \in 1..Len(import_list) :
                   /\ CountFor(ResolveRequests, c) = IF NotLoggedIn(client) THEN 0 ELSE 1
                   /\ CountFor(FollowRequests, c) = IF ResolvedOk(c) THEN 1 ELSE 0

C12_Witness ==
    /\ LoopEnded
    /\ Len(import_list) = 2
    /\ import_list[1] # import_list[2]
    /\ Indices(ResolveRequests) = <<1, 2>>
    /\ Indices(FollowRequests) = <<1, 2>>

(***************************************************************************)
(* C13: a failure of subscribe for one community (a failed resolve, a       *)
(* failed follow request, a missing token) never stops the loop of          *)
(* import_communities: every community of the parsed list gets exactly one  *)
(* call of subscribe, in list order, and when the loop ends                 *)
(* n_subscribed + n_failed is the number of parsed communities.             *)
(***************************************************************************)
C13_ImportIsolatesFailures ==
    (call = "import_communities" /\ cursor > 0) =>
        /\ subscribe_calls =
               [k \in 1..(IF pc \in {"resolve", "follow"} THEN cursor ELSE cursor - 1) |-> k]
        /\ n_subscribed + n_failed = cursor - 1
        /\ n_subscribed =
               Cardinality({ k \in 1..Len(http) :
                               http[k].method = "POST" /\ http[k].response.status = "ok" })
        /\ pc = "done" =>
               /\ IsReturn(ret)
               /\ cursor = Len(import_list) + 1
               /\ n_subscribed + n_failed = Len(import_list)

C13_Witness ==
    /\ LoopEnded
    /\ Len(import_list) = 2
    /\ ~ResolvedOk(1)
    /\ Indices(ResolveRequests) = <<1, 2>>
    /\ Indices(FollowRequests) = <<2>>
    /\ n_failed = 1
    /\ n_subscribed = 1

====
